---- MODULE Spec2Model ----
(***************************************************************************)
(* Model of the retrieval core of rag-and-ai-agents:                       *)
(*   index_builder.py  chunk_text, build_corpus_chunks,                    *)
(*                     embed_chunks_with_logging, build_faiss_index,       *)
(*                     save_index_and_chunks, main                         *)
(*   main.py           load_index_and_data                                 *)
(*   rag_core.py       embed_texts, traduzir_para_ingles, rag_retrieve     *)
(*                                                                         *)
(* Five specifications share the module:                                   *)
(*   SpecChunk     the while loop of chunk_text, one iteration per step    *)
(*   SpecChunkFair SpecChunk with a call that keeps running                *)
(*   SpecIndex     index_builder.main, one embedding call and one file     *)
(*                 write per step, with load_index_and_data as a reader    *)
(*   SpecStore     the same run on a disk that holds any part of a bundle  *)
(*   SpecRetrieve  rag_retrieve                                            *)
(***************************************************************************)
EXTENDS Integers, Sequences, FiniteSets, TLC

Min(a, b) == IF a < b THEN a ELSE b
Max(a, b) == IF a > b THEN a ELSE b

(***************************************************************************)
(* Python str.  A string is kept run-length encoded: a sequence of runs    *)
(* [c |-> character, n |-> repetitions >= 1] in which adjacent runs hold   *)
(* different characters, so that two equal strings are equal values and a  *)
(* text of a few thousand characters stays a short value.                  *)
(***************************************************************************)
Chars == {"a", " "}

\* str.isspace() of one character
IsSpace(c) == c = " "

\* len(s)
RECURSIVE PyLen(_)
PyLen(s) == IF s = <<>> THEN 0 ELSE Head(s).n + PyLen(Tail(s))

\* s[k:], 0 <= k
RECURSIVE PyDrop(_, _)
PyDrop(s, k) ==
    IF k <= 0 \/ s = <<>> THEN s
    ELSE IF Head(s).n <= k THEN PyDrop(Tail(s), k - Head(s).n)
    ELSE <<[c |-> Head(s).c, n |-> Head(s).n - k]>> \o Tail(s)

\* s[:k], 0 <= k
RECURSIVE PyTake(_, _)
PyTake(s, k) ==
    IF k <= 0 \/ s = <<>> THEN <<>>
    ELSE IF Head(s).n <= k THEN <<Head(s)>> \o PyTake(Tail(s), k - Head(s).n)
    ELSE <<[c |-> Head(s).c, n |-> k]>>

\* The position a slice bound denotes in a string of length len: a negative
\* bound counts from the end, and every bound is clamped to 0..len.
PySliceIndex(i, len) == IF i < 0 THEN Max(i + len, 0) ELSE Min(i, len)

\* s[lo:hi]
PySlice(s, lo, hi) ==
    LET a == PySliceIndex(lo, PyLen(s))
        b == PySliceIndex(hi, PyLen(s))
    IN  PyTake(PyDrop(s, a), b - a)

\* s.lstrip(), s.rstrip(), s.strip()
RECURSIVE PyLStrip(_)
PyLStrip(s) ==
    IF s # <<>> /\ IsSpace(Head(s).c) THEN PyLStrip(Tail(s)) ELSE s

RECURSIVE PyRStrip(_)
PyRStrip(s) ==
    IF s # <<>> /\ IsSpace(s[Len(s)].c) THEN PyRStrip(SubSeq(s, 1, Len(s) - 1)) ELSE s

PyStrip(s) == PyRStrip(PyLStrip(s))

\* s[p], 0 <= p < len(s)
RECURSIVE PyCharAt(_, _)
PyCharAt(s, p) ==
    IF p < Head(s).n THEN Head(s).c ELSE PyCharAt(Tail(s), p - Head(s).n)

\* The run-length encoded strings of at most maxRuns runs, each run of a
\* length in lens.
RECURSIVE TextsOfRuns(_, _)
TextsOfRuns(k, lens) ==
    IF k = 0 THEN {<<>>}
    ELSE LET shorter == TextsOfRuns(k - 1, lens)
         IN  shorter \cup
             { t \o <<[c |-> ch, n |-> l]>> :
                 t \in {u \in shorter : Len(u) = k - 1}, ch \in Chars, l \in lens }

IsCanonical(s) == \A j \in 1..(Len(s) - 1) : s[j].c # s[j + 1].c

(***************************************************************************)
(* index_builder.py: constants                                             *)
(***************************************************************************)
CHUNK_SIZE_CHARS == 1200
CHUNK_OVERLAP_CHARS == 300

\* os.path.join(a, b)
PathJoin(a, b) == a \o "/" \o b

INDEX_DIR == "index"
CHUNKS_PATH == PathJoin(INDEX_DIR, "chunks.pkl")
METADATA_PATH == PathJoin(INDEX_DIR, "chunks_meta.pkl")
FAISS_INDEX_PATH == PathJoin(INDEX_DIR, "faiss.index")
CHUNKS_JSON_PATH == PathJoin(INDEX_DIR, "chunks_with_metadata.json")

(***************************************************************************)
(* main.py: constants                                                      *)
(***************************************************************************)
main_INDEX_DIR == "index"
main_CHUNKS_PATH == PathJoin(main_INDEX_DIR, "chunks.pkl")
main_METADATA_PATH == PathJoin(main_INDEX_DIR, "chunks_meta.pkl")
main_FAISS_INDEX_PATH == PathJoin(main_INDEX_DIR, "faiss.index")

(***************************************************************************)
(* chunk_text                                                              *)
(***************************************************************************)
\* line 81: end = start + chunk_size_chars
WindowEndOneChar(s, size) == s + 1
WindowEnd(s, size) == s + size

\* line 82: chunk = text[start:end].strip()
WindowChunk(t, s, e) == PyStrip(PySlice(t, s, e))

\* lines 83-84: if chunk: chunks.append(chunk)
AppendIfAny(cs, chunk) == IF chunk # <<>> THEN Append(cs, chunk) ELSE cs

\* line 86: start = end - overlap_chars
NextStartSkipping(e, overlap) == e + overlap
NextStart(e, overlap) == e - overlap

\* The whole of chunk_text, for parameters that let the loop end
\* (overlap < size): the loop of lines 80-86 from a given start.
RECURSIVE ChunkLoop(_, _, _, _, _)
ChunkLoop(t, size, overlap, s, cs) ==
    IF s < PyLen(t)
    THEN LET e == WindowEnd(s, size)
         IN  ChunkLoop(t, size, overlap, NextStart(e, overlap),
                       AppendIfAny(cs, WindowChunk(t, s, e)))
    ELSE cs

chunk_text(t, size, overlap) == ChunkLoop(t, size, overlap, 0, <<>>)

(***************************************************************************)
(* build_corpus_chunks                                                     *)
(***************************************************************************)
\* lines 104-106: for i, chunk in enumerate(chunks_doc), from position i on;
\* acc holds all_chunks and metadata.
AppendMetadataOffByOne(meta, doc_name, i) ==
    Append(meta, [doc_name |-> doc_name, chunk_id |-> i + 1])
AppendMetadata(meta, doc_name, i) ==
    Append(meta, [doc_name |-> doc_name, chunk_id |-> i])

RECURSIVE AppendDocChunks(_, _, _, _)
AppendDocChunks(acc, doc_name, chunks_doc, i) ==
    IF i >= Len(chunks_doc) THEN acc
    ELSE AppendDocChunks(
             [all_chunks |-> Append(acc.all_chunks, chunks_doc[i + 1]),
              metadata |-> AppendMetadata(acc.metadata, doc_name, i)],
             doc_name, chunks_doc, i + 1)

\* lines 100-102: for doc_name, text in docs, from document d (1-based) on
RECURSIVE CorpusLoop(_, _, _)
CorpusLoop(acc, ds, d) ==
    IF d > Len(ds) THEN acc
    ELSE CorpusLoop(
             AppendDocChunks(acc, ds[d].doc_name,
                             chunk_text(ds[d].text, CHUNK_SIZE_CHARS, CHUNK_OVERLAP_CHARS),
                             0),
             ds, d + 1)

\* lines 97-109
build_corpus_chunks(ds) ==
    CorpusLoop([all_chunks |-> <<>>, metadata |-> <<>>], ds, 1)

(***************************************************************************)
(* Embeddings.  The embedding service returns Python floats (doubles); a   *)
(* component is an integer counting half units in the last place of        *)
(* float32, so the even numbers are the values float32 holds exactly.      *)
(***************************************************************************)
\* numpy's cast of a double to float32: round to nearest, ties to even
ToFloat32(x) ==
    IF x % 2 = 0 THEN x
    ELSE IF ((x - 1) \div 2) % 2 = 0 THEN x - 1 ELSE x + 1

\* np.array(vectors, dtype="float32") for a list of equally long vectors
NpArrayFloat32(vs) ==
    [k \in 1..Len(vs) |-> [c \in 1..Len(vs[k]) |-> ToFloat32(vs[k][c])]]

\* What one call ollama.embeddings(model, prompt)["embedding"] can give back
RawEmbeddings == {<<1, 2>>, <<3, 0>>}

\* lines 129, 128: zip(chunks, metadata) stops at the shorter list
ZipLen(cs, ms) == Min(Len(cs), Len(ms))

\* lines 139-141: the three appends of a successful call
AppendOkRenumbering(out, emb, chunk, meta) ==
    [vectors |-> Append(out.vectors, emb),
     chunks_ok |-> Append(out.chunks_ok, chunk),
     metadata_ok |-> Append(out.metadata_ok,
                            [meta EXCEPT !.chunk_id = Len(out.metadata_ok)])]
AppendOk(out, emb, chunk, meta) ==
    [vectors |-> Append(out.vectors, emb),
     chunks_ok |-> Append(out.chunks_ok, chunk),
     metadata_ok |-> Append(out.metadata_ok, meta)]

\* lines 143-149: the except branch keeps the three lists as they are
SkipFailedAppendingChunk(out, chunk) ==
    [out EXCEPT !.chunks_ok = Append(@, chunk)]
SkipFailed(out, chunk) == out

\* line 151: if not vectors
NoVectorsNever(vs) == FALSE
NoVectors(vs) == vs = <<>>

(***************************************************************************)
(* build_faiss_index: faiss.IndexFlatL2(dim) and index.add(embeddings)     *)
(***************************************************************************)
build_faiss_index(embeddings) ==
    [d |-> Len(embeddings[1]), xb |-> embeddings]

(***************************************************************************)
(* Files.  A path holds no file, or what one writer put there.             *)
(***************************************************************************)
NoFile == [kind |-> "none"]

\* The float32 values of an index, row after row, as IndexFlat keeps and
\* writes them
RECURSIVE Flatten(_)
Flatten(xb) == IF xb = <<>> THEN <<>> ELSE Head(xb) \o Flatten(Tail(xb))

\* faiss.write_index(index, path): the dimension, the number of vectors and
\* the flat values
FaissFile(ix) ==
    [kind |-> "faiss", d |-> ix.d, ntotal |-> Len(ix.xb), codes |-> Flatten(ix.xb)]

\* faiss.read_index(path): row r is the r-th slice of d values
read_index_rows_reversed(file) ==
    [d |-> file.d,
     xb |-> [r \in 1..file.ntotal |->
                SubSeq(file.codes, (file.ntotal - r) * file.d + 1,
                       (file.ntotal - r + 1) * file.d)]]
read_index(file) ==
    [d |-> file.d,
     xb |-> [r \in 1..file.ntotal |->
                SubSeq(file.codes, (r - 1) * file.d + 1, r * file.d)]]

\* pickle.load(f) of what pickle.dump(obj, f) wrote: lists of str and of
\* dicts of str and int come back as equal objects
pickle_load(file) == file.obj

PickleFile(obj) == [kind |-> "pickle", obj |-> obj]             \* pickle.dump
JsonFile(obj) == [kind |-> "json", obj |-> obj]                 \* json.dump

Paths ==
    {FAISS_INDEX_PATH, CHUNKS_PATH, METADATA_PATH, CHUNKS_JSON_PATH,
     main_FAISS_INDEX_PATH, main_CHUNKS_PATH, main_METADATA_PATH}

\* os.path.exists(path)
Exists(disk, path) == disk[path] # NoFile

\* save_index_and_chunks, lines 190-197
chunks_for_json(cs, ms) ==
    [k \in 1..ZipLen(cs, ms) |->
        [global_chunk_idx |-> k - 1,
         doc_name |-> ms[k].doc_name,
         chunk_id |-> ms[k].chunk_id,
         text |-> cs[k]]]

(***************************************************************************)
(* main.py: load_index_and_data                                            *)
(***************************************************************************)
\* lines 28-32
AllArtifactsExistLax(disk) ==
    /\ Exists(disk, main_FAISS_INDEX_PATH)
    /\ Exists(disk, main_CHUNKS_PATH)
AllArtifactsExist(disk) ==
    /\ Exists(disk, main_FAISS_INDEX_PATH)
    /\ Exists(disk, main_CHUNKS_PATH)
    /\ Exists(disk, main_METADATA_PATH)

NoneTriple == [ret |-> "None"]

\* faiss.read_index(path), and open(path, "rb") with pickle.load
ReadsFail(disk) ==
    \E path \in {main_FAISS_INDEX_PATH, main_CHUNKS_PATH, main_METADATA_PATH} :
        ~Exists(disk, path)

\* lines 28-43; reading a file that is not there raises
load_index_and_data(disk) ==
    IF ~AllArtifactsExist(disk) THEN NoneTriple
    ELSE IF ReadsFail(disk) THEN [ret |-> "FileNotFoundError"]
    ELSE [ret |-> "loaded",
          index |-> read_index(disk[main_FAISS_INDEX_PATH]),
          chunks |-> pickle_load(disk[main_CHUNKS_PATH]),
          metadata |-> pickle_load(disk[main_METADATA_PATH])]

(***************************************************************************)
(* rag_core.py                                                             *)
(***************************************************************************)
\* Python's None, and a value that is not None
None == <<>>
Some(x) == <<x>>

\* d.get(key) of a dict
DictGet(d, key) == IF key \in DOMAIN d THEN Some(d[key]) ELSE None

\* traduzir_para_ingles, lines 36-60: reply is what ollama.chat did, either
\* [raised |-> TRUE] or [raised |-> FALSE, content |-> the reply's text]
traduzir_sem_fallback(texto, reply) ==
    IF reply.raised THEN <<>> ELSE PyStrip(reply.content)
traduzir_para_ingles(texto, reply) ==
    IF reply.raised THEN texto
    ELSE LET traducao == PyStrip(reply.content)
         IN  IF traducao = <<>> THEN texto ELSE traducao

\* faiss.IndexFlatL2: the squared Euclidean distance of two vectors
RECURSIVE SumSquares(_, _, _)
SumSquares(u, v, c) ==
    IF c > Len(u) THEN 0
    ELSE (u[c] - v[c]) * (u[c] - v[c]) + SumSquares(u, v, c + 1)

L2Sqr(u, v) == SumSquares(u, v, 1)

\* The distance faiss reports beside the label -1 (the largest float32)
FLT_MAX == 2147483647

\* faiss.IndexFlatL2.search for one query: the position (0-based) of the
\* nearest vector not in taken, the lower position on equal distances
NearestLeft(xb, q, taken) ==
    CHOOSE p \in (0..(Len(xb) - 1)) \ taken :
        \A o \in (0..(Len(xb) - 1)) \ taken :
            \/ L2Sqr(q, xb[p + 1]) < L2Sqr(q, xb[o + 1])
            \/ (L2Sqr(q, xb[p + 1]) = L2Sqr(q, xb[o + 1]) /\ p <= o)

\* The k results in ascending distance; -1 and FLT_MAX fill what the index
\* cannot give
RECURSIVE SearchLoop(_, _, _, _, _)
SearchLoop(xb, q, k, taken, found) ==
    IF Len(found.indices) >= k THEN found
    ELSE IF Cardinality(taken) >= Len(xb)
    THEN SearchLoop(xb, q, k, taken,
                    [distances |-> Append(found.distances, FLT_MAX),
                     indices |-> Append(found.indices, -1)])
    ELSE LET p == NearestLeft(xb, q, taken)
         IN  SearchLoop(xb, q, k, taken \cup {p},
                        [distances |-> Append(found.distances, L2Sqr(q, xb[p + 1])),
                         indices |-> Append(found.indices, p)])

\* line 91: index.search(query_emb, top_k), the row of the one query
IndexSearchPaddingWithFirst(idx, q, k) ==
    LET found == SearchLoop(idx.xb, q, k, {}, [distances |-> <<>>, indices |-> <<>>])
    IN  [found EXCEPT !.indices =
            [j \in 1..Len(found.indices) |->
                IF found.indices[j] = -1 THEN 0 ELSE found.indices[j]]]
IndexSearch(idx, q, k) ==
    SearchLoop(idx.xb, q, k, {}, [distances |-> <<>>, indices |-> <<>>])

\* line 98: if 0 <= idx < len(chunks)
InChunks(idx, cs) == 0 <= idx /\ idx < Len(cs)

\* line 99: meta = metadata[idx] if idx < len(metadata) else {}
MetaAtFirst(ms, idx) == IF ms # <<>> THEN ms[1] ELSE <<>>
MetaAt(ms, idx) == IF idx < Len(ms) THEN ms[idx + 1] ELSE <<>>

\* lines 100-106
ResultItem(cs, ms, idx, rank, dist) ==
    LET meta == MetaAt(ms, idx)
    IN  [text |-> cs[idx + 1],
         doc_name |-> DictGet(meta, "doc_name"),
         chunk_id |-> DictGet(meta, "chunk_id"),
         rank |-> rank,
         distance |-> dist]

\* lines 97-107: for rank, idx in enumerate(idxs), from rank on
RECURSIVE JoinLoop(_, _, _, _, _, _)
JoinLoop(idxs, dists, cs, ms, rank, res) ==
    IF rank >= Len(idxs) THEN res
    ELSE JoinLoop(idxs, dists, cs, ms, rank + 1,
                  IF InChunks(idxs[rank + 1], cs)
                  THEN Append(res, ResultItem(cs, ms, idxs[rank + 1], rank, dists[rank + 1]))
                  ELSE res)

(***************************************************************************)
(* Bounds                                                                  *)
(***************************************************************************)
MaxRuns == 3      \* chunk_text runs: runs of equal characters in a text
MaxRunLen == 2    \* chunk_text runs: characters in one run
MaxSize == 3      \* chunk_text runs: largest chunk_size_chars and overlap_chars
\* chunk_text cuts one window per character at most when overlap < size;
\* a run that cuts more is cut off here.
MaxIters == MaxRuns * MaxRunLen + 2

MaxDocRuns == 2   \* indexing runs: runs of equal characters in a document
RunUnit == 600    \* indexing runs: characters in one run of a document

MaxN == 3         \* retrieval runs: vectors in the index, chunks, metadata
MaxTopK == 4      \* retrieval runs: largest top_k

ShortTexts == {t \in TextsOfRuns(MaxRuns, 1..MaxRunLen) : IsCanonical(t)}

DocTexts == {t \in TextsOfRuns(MaxDocRuns, {RunUnit}) : IsCanonical(t)}
DocNames == {"doc_a.pdf", "doc_b.pdf"}
Docs == [doc_name : DocNames, text : DocTexts]

\* The document lists: every document name at most once (load_pdfs lists a
\* directory, lines 45-58).
DocLists ==
    {<<>>} \cup {<<d>> : d \in Docs}
           \cup {p \in Docs \X Docs : p[1].doc_name # p[2].doc_name}

\* The bundle a former run left on disk: one document, every call a success.
OldCorpus ==
    build_corpus_chunks(<<[doc_name |-> "doc_old.pdf",
                           text |-> <<[c |-> "a", n |-> RunUnit]>>]>>)
OldIndex ==
    build_faiss_index(NpArrayFloat32([k \in 1..Len(OldCorpus.all_chunks) |-> <<3, 3>>]))
OldFile(path) ==
    CASE path = FAISS_INDEX_PATH -> FaissFile(OldIndex)
      [] path = CHUNKS_PATH -> PickleFile(OldCorpus.all_chunks)
      [] path = METADATA_PATH -> PickleFile(OldCorpus.metadata)
      [] path = CHUNKS_JSON_PATH ->
             JsonFile(chunks_for_json(OldCorpus.all_chunks, OldCorpus.metadata))
NoDisk == [path \in Paths |-> NoFile]
OldDisk == [path \in Paths |-> OldFile(path)]
\* Every subset of the old bundle's files
PartialDisks ==
    {[path \in Paths |-> IF path \in present THEN OldFile(path) ELSE NoFile] :
        present \in SUBSET Paths}

\* The document lists of the save and load runs
StoreDocLists ==
    { <<>>,
      <<[doc_name |-> "doc_a.pdf",
         text |-> <<[c |-> " ", n |-> RunUnit], [c |-> "a", n |-> RunUnit]>>],
        [doc_name |-> "doc_b.pdf", text |-> <<[c |-> "a", n |-> RunUnit]>>]>>,
      <<[doc_name |-> "doc_a.pdf", text |-> <<[c |-> "a", n |-> RunUnit]>>]>> }

\* The float32 vectors an index of the retrieval runs holds
IndexVectors == {<<0, 0>>, <<2, 0>>}
RECURSIVE SeqsUpTo(_, _)
SeqsUpTo(S, n) ==
    IF n = 0 THEN {<<>>}
    ELSE LET shorter == SeqsUpTo(S, n - 1)
         IN  shorter \cup {Append(q, x) : q \in {u \in shorter : Len(u) = n - 1}, x \in S}
\* The indexes build_faiss_index can give, and the empty one
Indexes == {[d |-> 2, xb |-> xb] : xb \in SeqsUpTo(IndexVectors, MaxN)}
\* The first n chunk texts and metadata records of a corpus of MaxN chunks
CorpusChunks(n) == [k \in 1..n |-> <<[c |-> "a", n |-> k]>>]
CorpusMetadata(n) ==
    [k \in 1..n |-> [doc_name |-> IF k = 1 THEN "doc_a.pdf" ELSE "doc_b.pdf",
                     chunk_id |-> IF k = 1 THEN 0 ELSE k - 2]]
Queries ==
    {<<[c |-> "a", n |-> 1]>>,
     <<[c |-> " ", n |-> 1], [c |-> "a", n |-> 1], [c |-> " ", n |-> 1]>>}
\* What the call of ollama.chat can do
ChatReplies ==
    {[raised |-> TRUE]} \cup
    {[raised |-> FALSE, content |-> t] :
        t \in {<<>>, <<[c |-> " ", n |-> 1]>>,
               <<[c |-> " ", n |-> 1], [c |-> "a", n |-> 2], [c |-> " ", n |-> 1]>>}}

VARIABLES
    text,              \* chunk_text: text
    chunk_size_chars,  \* chunk_text: chunk_size_chars
    overlap_chars,     \* chunk_text: overlap_chars
    start,             \* chunk_text: start
    ct_chunks,         \* chunk_text: chunks
    ct_pc,             \* chunk_text: "while" (at the loop test), "return"
    windows,           \* history: the range text[start:end] of each iteration
    docs,              \* index_builder.main: docs
    ib_pc,             \* index_builder.main: where the run stands
    chunks,            \* index_builder.main: chunks
    metadata,          \* index_builder.main: metadata
    i,                 \* embed_chunks_with_logging: chunks embedded or skipped
    vectors,           \* embed_chunks_with_logging: vectors
    chunks_ok,         \* embed_chunks_with_logging: chunks_ok
    metadata_ok,       \* embed_chunks_with_logging: metadata_ok
    outcomes,          \* history: what each embedding call gave
    embeddings,        \* index_builder.main: embeddings
    index,             \* index_builder.main: index
    fs,                \* the files under index/
    fs0,               \* history: the files when the run began
    loaded,            \* main.py: what load_index_and_data last returned
    query,             \* rag_retrieve: query
    rr_index,          \* rag_retrieve: index
    rr_chunks,         \* rag_retrieve: chunks
    rr_metadata,       \* rag_retrieve: metadata
    top_k,             \* rag_retrieve: top_k
    rr_pc,             \* rag_retrieve: where the call stands
    chat_reply,        \* history: what ollama.chat did
    query_en,          \* rag_retrieve: query_en
    prompts,           \* history: the prompts sent to ollama.embeddings
    query_emb,         \* rag_retrieve: query_emb
    distances,         \* rag_retrieve: distances[0]
    indices,           \* rag_retrieve: indices[0]
    results            \* rag_retrieve: results

chunkVars == <<text, chunk_size_chars, overlap_chars, start, ct_chunks, ct_pc, windows>>
embedVars == <<i, vectors, chunks_ok, metadata_ok, outcomes>>
indexVars == <<docs, ib_pc, chunks, metadata, embedVars, embeddings, index, fs, fs0, loaded>>

retrieveInputs == <<query, rr_index, rr_chunks, rr_metadata, top_k>>
retrieveVars ==
    <<retrieveInputs, rr_pc, chat_reply, query_en, prompts, query_emb,
      distances, indices, results>>

vars == <<chunkVars, indexVars, retrieveVars>>

NoIndex == [d |-> 0, xb |-> <<>>]
NotCalled == [ret |-> "not called"]

\* No call of chunk_text is under way
ChunkIdle ==
    /\ text = <<>>
    /\ chunk_size_chars = CHUNK_SIZE_CHARS
    /\ overlap_chars = CHUNK_OVERLAP_CHARS
    /\ start = 0
    /\ ct_chunks = <<>>
    /\ ct_pc = "idle"
    /\ windows = <<>>

\* The locals of index_builder.main before its first statement
IndexLocalsUnset ==
    /\ chunks = <<>>
    /\ metadata = <<>>
    /\ i = 0
    /\ vectors = <<>>
    /\ chunks_ok = <<>>
    /\ metadata_ok = <<>>
    /\ outcomes = <<>>
    /\ embeddings = <<>>
    /\ index = NoIndex
    /\ loaded = NotCalled

\* No indexing run is under way
IndexIdle ==
    /\ docs = <<>>
    /\ ib_pc = "idle"
    /\ IndexLocalsUnset
    /\ fs = NoDisk
    /\ fs0 = NoDisk

\* The locals of rag_retrieve before its first statement
RetrieveLocalsUnset ==
    /\ chat_reply = [raised |-> FALSE, content |-> <<>>]
    /\ query_en = <<>>
    /\ prompts = <<>>
    /\ query_emb = <<>>
    /\ distances = <<>>
    /\ indices = <<>>
    /\ results = <<>>

\* No call of rag_retrieve is under way
RetrieveIdle ==
    /\ query = <<>>
    /\ rr_index = NoIndex
    /\ rr_chunks = <<>>
    /\ rr_metadata = <<>>
    /\ top_k = 0
    /\ rr_pc = "idle"
    /\ RetrieveLocalsUnset

(***************************************************************************)
(* SpecChunk: chunk_text                                                   *)
(***************************************************************************)
\* lines 76-78, for any call chunk_text(text, size, overlap)
InitChunk ==
    /\ text \in ShortTexts
    /\ chunk_size_chars \in 1..MaxSize
    /\ overlap_chars \in 0..MaxSize
    /\ start = 0
    /\ ct_chunks = <<>>
    /\ ct_pc = "while"
    /\ windows = <<>>
    /\ IndexIdle
    /\ RetrieveIdle

\* lines 80-86: one iteration of the loop
chunk_text_iter ==
    /\ ct_pc = "while"
    /\ start < PyLen(text)
    /\ Len(windows) < MaxIters
    /\ LET end == WindowEnd(start, chunk_size_chars)
           chunk == WindowChunk(text, start, end)
       IN  /\ ct_chunks' = AppendIfAny(ct_chunks, chunk)
           /\ start' = NextStart(end, overlap_chars)
           /\ windows' = Append(windows,
                                [lo |-> PySliceIndex(start, PyLen(text)),
                                 hi |-> PySliceIndex(end, PyLen(text)),
                                 emitted |-> chunk # <<>>])
    /\ UNCHANGED <<text, chunk_size_chars, overlap_chars, ct_pc>>
    /\ UNCHANGED <<indexVars, retrieveVars>>

\* lines 80, 88: the loop test fails, return chunks
chunk_text_return ==
    /\ ct_pc = "while"
    /\ ~(start < PyLen(text))
    /\ ct_pc' = "return"
    /\ UNCHANGED <<text, chunk_size_chars, overlap_chars, start, ct_chunks, windows>>
    /\ UNCHANGED <<indexVars, retrieveVars>>

NextChunk ==
    \/ chunk_text_iter
    \/ chunk_text_return

SpecChunk == InitChunk /\ [][NextChunk]_vars

\* The interpreter goes on running a call of chunk_text for as long as the
\* call has a statement to run.
SpecChunkFair == SpecChunk /\ WF_vars(NextChunk)

(***************************************************************************)
(* SpecIndex, SpecStore: index_builder.main and load_index_and_data        *)
(***************************************************************************)
\* A run of index_builder.main over any document list, on a disk that holds
\* nothing or a former run's bundle
InitIndex ==
    /\ ChunkIdle
    /\ RetrieveIdle
    /\ docs \in DocLists
    /\ ib_pc = "start"
    /\ IndexLocalsUnset
    /\ fs \in {NoDisk, OldDisk}
    /\ fs0 = fs

\* A run of index_builder.main on a disk that holds any part of a former
\* run's bundle
InitStore ==
    /\ ChunkIdle
    /\ RetrieveIdle
    /\ docs \in StoreDocLists
    /\ ib_pc = "start"
    /\ IndexLocalsUnset
    /\ fs \in PartialDisks
    /\ fs0 = fs

\* main, lines 208-211: no document, return
main_no_docs ==
    /\ ib_pc = "start"
    /\ docs = <<>>
    /\ ib_pc' = "return"
    /\ UNCHANGED <<docs, chunks, metadata, embedVars, embeddings, index, fs, fs0, loaded>>
    /\ UNCHANGED <<chunkVars, retrieveVars>>

\* main, line 213, and embed_chunks_with_logging, lines 124-128
main_build_corpus_chunks ==
    /\ ib_pc = "start"
    /\ docs # <<>>
    /\ LET built == build_corpus_chunks(docs)
       IN  /\ chunks' = built.all_chunks
           /\ metadata' = built.metadata
    /\ i' = 0
    /\ vectors' = <<>>
    /\ chunks_ok' = <<>>
    /\ metadata_ok' = <<>>
    /\ ib_pc' = "embed"
    /\ UNCHANGED <<docs, outcomes, embeddings, index, fs, fs0, loaded>>
    /\ UNCHANGED <<chunkVars, retrieveVars>>

EmbedOut == [vectors |-> vectors, chunks_ok |-> chunks_ok, metadata_ok |-> metadata_ok]

SetEmbedOut(out) ==
    /\ vectors' = out.vectors
    /\ chunks_ok' = out.chunks_ok
    /\ metadata_ok' = out.metadata_ok

\* embed_chunks_with_logging, lines 129-141: the call succeeds
embed_chunk_ok ==
    /\ ib_pc = "embed"
    /\ i < ZipLen(chunks, metadata)
    /\ \E emb \in RawEmbeddings :
          /\ SetEmbedOut(AppendOk(EmbedOut, emb, chunks[i + 1], metadata[i + 1]))
          /\ outcomes' = Append(outcomes, [ok |-> TRUE, emb |-> emb])
    /\ i' = i + 1
    /\ UNCHANGED <<docs, ib_pc, chunks, metadata, embeddings, index, fs, fs0, loaded>>
    /\ UNCHANGED <<chunkVars, retrieveVars>>

\* embed_chunks_with_logging, lines 129-136, 143-149: the call raises
embed_chunk_failed ==
    /\ ib_pc = "embed"
    /\ i < ZipLen(chunks, metadata)
    /\ SetEmbedOut(SkipFailed(EmbedOut, chunks[i + 1]))
    /\ outcomes' = Append(outcomes, [ok |-> FALSE])
    /\ i' = i + 1
    /\ UNCHANGED <<docs, ib_pc, chunks, metadata, embeddings, index, fs, fs0, loaded>>
    /\ UNCHANGED <<chunkVars, retrieveVars>>

\* embed_chunks_with_logging, lines 151-154: RuntimeError, which main does
\* not catch
embed_raise_no_vectors ==
    /\ ib_pc = "embed"
    /\ ~(i < ZipLen(chunks, metadata))
    /\ NoVectors(vectors)
    /\ ib_pc' = "RuntimeError"
    /\ UNCHANGED <<docs, chunks, metadata, embedVars, embeddings, index, fs, fs0, loaded>>
    /\ UNCHANGED <<chunkVars, retrieveVars>>

\* embed_chunks_with_logging, lines 156-157, and main, lines 215-217
embed_return ==
    /\ ib_pc = "embed"
    /\ ~(i < ZipLen(chunks, metadata))
    /\ ~NoVectors(vectors)
    /\ embeddings' = NpArrayFloat32(vectors)
    /\ ib_pc' = "build_faiss_index"
    /\ UNCHANGED <<docs, chunks, metadata, embedVars, index, fs, fs0, loaded>>
    /\ UNCHANGED <<chunkVars, retrieveVars>>

\* main, line 219
main_build_faiss_index ==
    /\ ib_pc = "build_faiss_index"
    /\ index' = build_faiss_index(embeddings)
    /\ ib_pc' = "write_index"
    /\ UNCHANGED <<docs, chunks, metadata, embedVars, embeddings, fs, fs0, loaded>>
    /\ UNCHANGED <<chunkVars, retrieveVars>>

\* One write of save_index_and_chunks(index, chunks_ok, metadata_ok)
SaveStep(at, path, file, next) ==
    /\ ib_pc = at
    /\ fs' = [fs EXCEPT ![path] = file]
    /\ ib_pc' = next
    /\ UNCHANGED <<docs, chunks, metadata, embedVars, embeddings, index, fs0, loaded>>
    /\ UNCHANGED <<chunkVars, retrieveVars>>

\* save_index_and_chunks, lines 176-178
save_write_index ==
    SaveStep("write_index", FAISS_INDEX_PATH, FaissFile(index), "dump_chunks")

\* save_index_and_chunks, lines 181-182
save_dump_chunks ==
    SaveStep("dump_chunks", CHUNKS_PATH, PickleFile(chunks_ok), "dump_metadata")

\* save_index_and_chunks, lines 185-186
save_dump_metadata ==
    SaveStep("dump_metadata", METADATA_PATH, PickleFile(metadata_ok), "dump_json")

\* save_index_and_chunks, lines 190-200, and main, line 223 on
save_dump_json ==
    SaveStep("dump_json", CHUNKS_JSON_PATH,
             JsonFile(chunks_for_json(chunks_ok, metadata_ok)), "done")

SavePcs == {"write_index", "dump_chunks", "dump_metadata", "dump_json"}

\* The process is stopped between two writes of save_index_and_chunks
save_interrupted ==
    /\ ib_pc \in SavePcs
    /\ ib_pc' = "interrupted"
    /\ UNCHANGED <<docs, chunks, metadata, embedVars, embeddings, index, fs, fs0, loaded>>
    /\ UNCHANGED <<chunkVars, retrieveVars>>

\* main.py, line 48: another process loads what is on disk
main_load_index_and_data ==
    /\ ib_pc # "idle"
    /\ loaded' = load_index_and_data(fs)
    /\ UNCHANGED <<docs, ib_pc, chunks, metadata, embedVars, embeddings, index, fs, fs0>>
    /\ UNCHANGED <<chunkVars, retrieveVars>>

NextIndex ==
    \/ main_no_docs
    \/ main_build_corpus_chunks
    \/ embed_chunk_ok
    \/ embed_chunk_failed
    \/ embed_raise_no_vectors
    \/ embed_return
    \/ main_build_faiss_index
    \/ save_write_index
    \/ save_dump_chunks
    \/ save_dump_metadata
    \/ save_dump_json
    \/ save_interrupted
    \/ main_load_index_and_data

SpecIndex == InitIndex /\ [][NextIndex]_vars

SpecStore == InitStore /\ [][NextIndex]_vars

(***************************************************************************)
(* SpecRetrieve: rag_retrieve                                              *)
(***************************************************************************)
\* A call rag_retrieve(query, index, chunks, metadata, top_k); the index and
\* the two lists may come from different saves (see C10), so their lengths
\* are independent.
InitRetrieve ==
    /\ ChunkIdle
    /\ IndexIdle
    /\ query \in Queries
    /\ rr_index \in Indexes
    /\ \E n \in 0..MaxN : rr_chunks = CorpusChunks(n)
    /\ \E n \in 0..MaxN : rr_metadata = CorpusMetadata(n)
    /\ top_k \in 1..MaxTopK
    /\ rr_pc = "translate"
    /\ RetrieveLocalsUnset

\* line 86: query_en = traduzir_para_ingles(query)
rr_translate ==
    /\ rr_pc = "translate"
    /\ \E reply \in ChatReplies :
          /\ chat_reply' = reply
          /\ query_en' = traduzir_para_ingles(query, reply)
    /\ rr_pc' = "embed"
    /\ UNCHANGED <<retrieveInputs, prompts, query_emb, distances, indices, results>>
    /\ UNCHANGED <<chunkVars, indexVars>>

\* line 90 and embed_texts, lines 20-26: the call of ollama.embeddings succeeds
rr_embed_query_ok ==
    /\ rr_pc = "embed"
    /\ prompts' = Append(prompts, query_en)
    /\ \E emb \in RawEmbeddings : query_emb' = NpArrayFloat32(<<emb>>)
    /\ rr_pc' = "search"
    /\ UNCHANGED <<retrieveInputs, chat_reply, query_en, distances, indices, results>>
    /\ UNCHANGED <<chunkVars, indexVars>>

\* line 90 and embed_texts, line 22: the call of ollama.embeddings raises,
\* and neither embed_texts nor rag_retrieve catches it
rr_embed_query_swallowed ==
    /\ rr_pc = "embed"
    /\ prompts' = Append(prompts, query_en)
    /\ rr_pc' = "return"
    /\ UNCHANGED <<retrieveInputs, chat_reply, query_en, query_emb, distances, indices, results>>
    /\ UNCHANGED <<chunkVars, indexVars>>
rr_embed_query_raises ==
    /\ rr_pc = "embed"
    /\ prompts' = Append(prompts, query_en)
    /\ rr_pc' = "raise"
    /\ UNCHANGED <<retrieveInputs, chat_reply, query_en, query_emb, distances, indices, results>>
    /\ UNCHANGED <<chunkVars, indexVars>>

\* lines 91, 93-95
rr_search ==
    /\ rr_pc = "search"
    /\ LET found == IndexSearch(rr_index, query_emb[1], top_k)
       IN  /\ distances' = found.distances
           /\ indices' = found.indices
    /\ results' = <<>>
    /\ rr_pc' = "join"
    /\ UNCHANGED <<retrieveInputs, chat_reply, query_en, prompts, query_emb>>
    /\ UNCHANGED <<chunkVars, indexVars>>

\* lines 97-117
rr_join_and_return ==
    /\ rr_pc = "join"
    /\ results' = JoinLoop(indices, distances, rr_chunks, rr_metadata, 0, results)
    /\ rr_pc' = "return"
    /\ UNCHANGED <<retrieveInputs, chat_reply, query_en, prompts, query_emb, distances, indices>>
    /\ UNCHANGED <<chunkVars, indexVars>>

NextRetrieve ==
    \/ rr_translate
    \/ rr_embed_query_ok
    \/ rr_embed_query_raises
    \/ rr_search
    \/ rr_join_and_return

SpecRetrieve == InitRetrieve /\ [][NextRetrieve]_vars

(***************************************************************************)
(* Claims about chunk_text (SpecChunk)                                     *)
(***************************************************************************)
ValidChunking == 0 < overlap_chars /\ overlap_chars < chunk_size_chars

Covered(p, ws) == \E j \in 1..Len(ws) : ws[j].lo <= p /\ p < ws[j].hi

EmittedWindows == SelectSeq(windows, LAMBDA w : w.emitted)

\* C4: chunk_text called with overlap >= size is rejected before any window
\* is cut, whatever the text.  (The code has no such check: it cuts windows.)
C4_RejectedBeforeWindowing ==
    overlap_chars >= chunk_size_chars => windows = <<>>

\* C5: with 0 < overlap < size, once chunk_text has returned, the windows it
\* cut, in order, start at 0, leave no gap between one and the next, cover
\* every character of the text, and the last one ends at the end of the
\* text; a window that yields no chunk holds whitespace only, so the windows
\* of the emitted chunks cover every character that is not whitespace.
C5_WindowsCoverText ==
    (ct_pc = "return" /\ ValidChunking) =>
        LET n == PyLen(text)
        IN  /\ \A p \in 0..(n - 1) : Covered(p, windows)
            /\ n > 0 => /\ windows # <<>>
                        /\ windows[1].lo = 0
                        /\ windows[Len(windows)].hi = n
            /\ \A j \in 1..(Len(windows) - 1) :
                   /\ windows[j].lo < windows[j + 1].lo
                   /\ windows[j + 1].lo <= windows[j].hi
            /\ \A p \in 0..(n - 1) :
                   ~IsSpace(PyCharAt(text, p)) => Covered(p, EmittedWindows)

\* C5 witness: a returned call with valid parameters that cut at least three
\* windows, one of them whitespace only, and emitted at least two chunks.
C5_Witness ==
    /\ ct_pc = "return"
    /\ ValidChunking
    /\ Len(windows) >= 3
    /\ Len(ct_chunks) >= 2
    /\ \E j \in 1..Len(windows) : ~windows[j].emitted

(***************************************************************************)
(* Claims about the indexing run (SpecIndex)                               *)
(***************************************************************************)
\* The positions (1-based) of the embedding calls that succeeded, in order
OkPositions ==
    SelectSeq([k \in 1..Len(outcomes) |-> k], LAMBDA k : outcomes[k].ok)

\* embed_chunks_with_logging has returned to main
EmbedReturned == ib_pc \in {"build_faiss_index", "done", "interrupted"} \cup SavePcs

\* C1: when embed_chunks_with_logging returns, it has called the service once
\* per input chunk, and its three outputs are equally long: as long as the
\* number of calls that succeeded, which is at least one.
C1_ParallelArrays ==
    EmbedReturned =>
        /\ Len(outcomes) = Len(chunks)
        /\ Len(OkPositions) >= 1
        /\ Len(embeddings) = Len(OkPositions)
        /\ Len(chunks_ok) = Len(OkPositions)
        /\ Len(metadata_ok) = Len(OkPositions)

\* C1 witness: a return after at least two successes and one failure.
C1_Witness ==
    /\ ib_pc = "build_faiss_index"
    /\ Len(OkPositions) >= 2
    /\ Len(outcomes) > Len(OkPositions)

\* C2: after build_corpus_chunks and embed_chunks_with_logging, output
\* position j holds the float32 vector, the text and the unchanged
\* {doc_name, chunk_id} of the j-th input chunk whose call succeeded, in the
\* input order; and the files of a finished run hold these arrays.
C2_SurvivorsAligned ==
    EmbedReturned =>
        /\ Len(chunks_ok) = Len(OkPositions)
        /\ \A j \in 1..Len(OkPositions) :
               LET p == OkPositions[j]
               IN  /\ chunks_ok[j] = chunks[p]
                   /\ metadata_ok[j] = metadata[p]
                   /\ embeddings[j] = [c \in 1..Len(outcomes[p].emb) |->
                                          ToFloat32(outcomes[p].emb[c])]
        /\ ib_pc \in {"write_index", "done"} => index.xb = embeddings
        /\ ib_pc = "done" =>
               /\ fs[FAISS_INDEX_PATH] = FaissFile(index)
               /\ fs[CHUNKS_PATH] = PickleFile(chunks_ok)
               /\ fs[METADATA_PATH] = PickleFile(metadata_ok)

\* C2 witness: doc_a.pdf with chunks 0 and 1, doc_b.pdf with chunk 0, the
\* call at global position 1 failed, and the run is finished.
C2_Witness ==
    /\ ib_pc = "done"
    /\ metadata = <<[doc_name |-> "doc_a.pdf", chunk_id |-> 0],
                    [doc_name |-> "doc_a.pdf", chunk_id |-> 1],
                    [doc_name |-> "doc_b.pdf", chunk_id |-> 0]>>
    /\ OkPositions = <<1, 3>>
    /\ fs[METADATA_PATH].obj = <<[doc_name |-> "doc_a.pdf", chunk_id |-> 0],
                                 [doc_name |-> "doc_b.pdf", chunk_id |-> 0]>>

\* C3: if no embedding call succeeds, embed_chunks_with_logging raises, and
\* the run then has built no index and written no file; it raises in no
\* other case.
C3_EmptyBatchRaises ==
    /\ (ib_pc \notin {"idle", "start", "return", "embed"} /\ OkPositions = <<>>)
           => ib_pc = "RuntimeError"
    /\ ib_pc = "RuntimeError" =>
           /\ OkPositions = <<>>
           /\ Len(outcomes) = Len(chunks)
           /\ embeddings = <<>>
           /\ index = NoIndex
           /\ fs = fs0

\* C3 witness: the error after two or more calls, all failed, with a former
\* bundle on disk.
C3_Witness ==
    /\ ib_pc = "RuntimeError"
    /\ Len(outcomes) >= 2
    /\ fs = OldDisk

\* The chunks of document d of the list, as chunk_text cuts them
DocChunks(d) == chunk_text(docs[d].text, CHUNK_SIZE_CHARS, CHUNK_OVERLAP_CHARS)

\* The number of chunks of the documents before document d
RECURSIVE ChunksBefore(_)
ChunksBefore(d) == IF d <= 1 THEN 0 ELSE ChunksBefore(d - 1) + Len(DocChunks(d - 1))

\* C6: build_corpus_chunks returns two equally long lists, the concatenation
\* of the documents' chunk lists in input order: chunk k (0-based) of a
\* document is at the global position that follows the chunks of the
\* documents before it, with that document's name and chunk_id k.
C6_ChunkIdsContiguous ==
    ib_pc \notin {"idle", "start", "return"} =>
        /\ Len(chunks) = Len(metadata)
        /\ Len(chunks) = ChunksBefore(Len(docs) + 1)
        /\ \A d \in 1..Len(docs) : \A k \in 0..(Len(DocChunks(d)) - 1) :
               /\ chunks[ChunksBefore(d) + k + 1] = DocChunks(d)[k + 1]
               /\ metadata[ChunksBefore(d) + k + 1] =
                      [doc_name |-> docs[d].doc_name, chunk_id |-> k]

\* C6 witness: a first document of two chunks and a second of at least one.
C6_Witness ==
    /\ ib_pc = "embed"
    /\ Len(docs) = 2
    /\ Len(DocChunks(1)) = 2
    /\ Len(metadata) >= 3
    /\ metadata[2].chunk_id = 1
    /\ metadata[3] = [doc_name |-> docs[2].doc_name, chunk_id |-> 0]

(***************************************************************************)
(* Claims about saving and loading (SpecStore)                             *)
(***************************************************************************)
RequiredPaths == {FAISS_INDEX_PATH, CHUNKS_PATH, METADATA_PATH}

\* C9: a call of load_index_and_data returns (None, None, None) when one of
\* the three required files is missing, and otherwise what the three files
\* hold; the JSON export decides nothing.
C9_LoadAllOrNothing ==
    [][loaded' # loaded =>
          IF \E path \in RequiredPaths : fs[path] = NoFile
          THEN loaded' = NoneTriple
          ELSE loaded' = [ret |-> "loaded",
                          index |-> read_index(fs[FAISS_INDEX_PATH]),
                          chunks |-> pickle_load(fs[CHUNKS_PATH]),
                          metadata |-> pickle_load(fs[METADATA_PATH])]]_vars

\* C9 witness: load answered None on a disk that holds the index, the chunk
\* texts and the JSON export, but not the metadata.
C9_Witness ==
    /\ loaded = NoneTriple
    /\ fs = fs0
    /\ fs[FAISS_INDEX_PATH] # NoFile
    /\ fs[CHUNKS_PATH] # NoFile
    /\ fs[CHUNKS_JSON_PATH] # NoFile
    /\ fs[METADATA_PATH] = NoFile

OldTriple == load_index_and_data(OldDisk)
NewTriple ==
    [ret |-> "loaded", index |-> index, chunks |-> chunks_ok, metadata |-> metadata_ok]

\* C10: with a former bundle on disk, whatever load_index_and_data returns
\* during or after a save, interrupted or not, is no index, the whole old
\* bundle or the whole new one.  (The code overwrites the files one by one.)
C10_NeverMixed ==
    (fs0 = OldDisk /\ ib_pc \in {"interrupted", "done"} /\ loaded.ret = "loaded")
        => loaded \in {OldTriple, NewTriple}

\* The float32 query vectors of embed_texts
QueryVectors == {NpArrayFloat32(<<emb>>)[1] : emb \in RawEmbeddings}

\* C11: once save_index_and_chunks has run to its end, every load returns
\* chunk texts and metadata equal to the saved lists, element by element, and
\* an index whose search gives, for every query vector and every top_k, the
\* row the saved index gives; and load reads the paths that save writes.
C11_RoundTrip ==
    [][(ib_pc = "done" /\ loaded' # loaded) =>
          /\ loaded'.ret = "loaded"
          /\ Len(loaded'.chunks) = Len(chunks_ok)
          /\ \A k \in 1..Len(chunks_ok) : loaded'.chunks[k] = chunks_ok[k]
          /\ Len(loaded'.metadata) = Len(metadata_ok)
          /\ \A k \in 1..Len(metadata_ok) : loaded'.metadata[k] = metadata_ok[k]
          /\ \A q \in QueryVectors : \A k \in 1..MaxTopK :
                 IndexSearch(loaded'.index, q, k) = IndexSearch(index, q, k)
          /\ main_FAISS_INDEX_PATH = FAISS_INDEX_PATH
          /\ main_CHUNKS_PATH = CHUNKS_PATH
          /\ main_METADATA_PATH = METADATA_PATH]_vars

\* C11 witness: a load after a finished save of three chunks whose vectors
\* are not all equal, over a former bundle.
C11_Witness ==
    /\ ib_pc = "done"
    /\ fs0 = OldDisk
    /\ loaded.ret = "loaded"
    /\ Len(loaded.chunks) = 3
    /\ Len(loaded.metadata) = 3
    /\ loaded.index.xb[1] # loaded.index.xb[3]
    /\ loaded.index = index

(***************************************************************************)
(* Claims about rag_retrieve (SpecRetrieve)                                *)
(***************************************************************************)
\* C7: the rank of every returned result is its 0-based place in the
\* returned list, whichever search entries were skipped.  (The code keeps the
\* place in the raw search row.)
C7_DenseRanks ==
    rr_pc = "return" => \A j \in 1..Len(results) : results[j].rank = j - 1

TranslationFailed ==
    chat_reply.raised \/ PyStrip(chat_reply.content) = <<>>

\* C12: if ollama.chat raises or gives an empty reply, traduzir_para_ingles
\* returns the query as it was given and raises nothing; rag_retrieve then
\* sends exactly that query to the embedding service, searches with its
\* vector, and returns the joined results of that search.
C12_TranslationFallback ==
    (rr_pc # "translate" /\ TranslationFailed) =>
        /\ query_en = query
        /\ rr_pc \in {"embed", "search", "join", "return", "raise"}
        /\ rr_pc # "embed" => prompts = <<query>>
        /\ rr_pc = "raise" => query_emb = <<>>
        /\ rr_pc \in {"join", "return"} =>
               /\ query_emb # <<>>
               /\ indices = IndexSearch(rr_index, query_emb[1], top_k).indices
        /\ rr_pc = "return" =>
               results = JoinLoop(indices, distances, rr_chunks, rr_metadata, 0, <<>>)

\* C12 witness: ollama.chat raised on a query with spaces around it, and
\* rag_retrieve returned results.
C12_Witness ==
    /\ rr_pc = "return"
    /\ chat_reply.raised
    /\ query # PyStrip(query)
    /\ prompts = <<query>>
    /\ results # <<>>

\* C13: when the embedding call for the query raises, rag_retrieve ends with
\* that exception: it has sent the one prompt and no other, has made no
\* search and built no result list; and whenever rag_retrieve returns a
\* list, the embedding call had given a vector and the search was made.
C13_EmbeddingFailurePropagates ==
    /\ rr_pc = "raise" =>
           /\ prompts = <<query_en>>
           /\ query_emb = <<>>
           /\ distances = <<>>
           /\ indices = <<>>
           /\ results = <<>>
    /\ rr_pc = "return" =>
           /\ prompts = <<query_en>>
           /\ query_emb # <<>>
           /\ Len(indices) = top_k

\* C13 witness: the embedding call raised for a translated query, with an
\* index and a corpus that hold something to find.
C13_Witness ==
    /\ rr_pc = "raise"
    /\ ~TranslationFailed
    /\ prompts = <<query_en>>
    /\ rr_index.xb # <<>>
    /\ rr_chunks # <<>>

\* The number of vectors in the index rag_retrieve was given
NTotal == Len(rr_index.xb)

\* C14: the search row holds -1 at every place past the number N of indexed
\* vectors; no returned result comes from a place that holds -1, so
\* rag_retrieve returns at most min(top_k, N) results; and when no place of
\* the row is a position of chunks (empty index, empty corpus) it returns
\* the empty list, not an error: after the search nothing raises.
C14_SentinelsFiltered ==
    /\ rr_pc \in {"join", "return"} =>
           /\ Len(indices) = top_k
           /\ \A k \in 1..top_k : k > NTotal => indices[k] = -1
    /\ rr_pc = "return" =>
           /\ \A j \in 1..Len(results) : indices[results[j].rank + 1] >= 0
           /\ Len(results) <= Min(top_k, NTotal)
           /\ (\A k \in 1..top_k : ~InChunks(indices[k], rr_chunks))
                  => results = <<>>
    /\ rr_pc = "raise" => indices = <<>>

\* C14 witness: top_k exceeds the number of indexed vectors, the row holds
\* -1, and rag_retrieve returned one result per indexed vector.
C14_Witness ==
    /\ rr_pc = "return"
    /\ NTotal >= 2
    /\ top_k > NTotal
    /\ indices[top_k] = -1
    /\ Len(results) = NTotal

\* The empty corpus: nothing indexed, every place of the row is -1, and the
\* returned list is empty.
C14_EmptyCorpusReturned ==
    /\ rr_pc = "return"
    /\ NTotal = 0
    /\ \A k \in 1..top_k : indices[k] = -1
    /\ results = <<>>

(***************************************************************************)
(* chunk_text: termination (SpecChunkFair)                                 *)
(***************************************************************************)
\* What holds of the chunks of a call with 0 < overlap < size: each is not
\* empty, has no space at either end and is at most chunk_size_chars long;
\* the loop has run at most once per character; a returned call has its
\* start at or past the end of the text, every window it cut started before
\* the end, its chunks are those of chunk_text, and there is none if the
\* text is empty or holds spaces only.
ChunksWellFormed ==
    ValidChunking =>
        /\ \A j \in 1..Len(ct_chunks) :
               /\ ct_chunks[j] # <<>>
               /\ PyStrip(ct_chunks[j]) = ct_chunks[j]
               /\ PyLen(ct_chunks[j]) >= 1
               /\ PyLen(ct_chunks[j]) <= chunk_size_chars
        /\ Len(windows) <= PyLen(text)
        /\ \A j \in 1..Len(windows) : windows[j].lo < PyLen(text)
        /\ ct_pc = "return" =>
               /\ start >= PyLen(text)
               /\ ct_chunks = chunk_text(text, chunk_size_chars, overlap_chars)
               /\ PyStrip(text) = <<>> => ct_chunks = <<>>

\* One iteration of the loop moves start forward by size - overlap, and the
\* call returns only from a start at or past the end of the text
StartAdvances ==
    ValidChunking =>
        /\ (ct_pc' = "while" /\ windows' # windows) =>
               /\ start < PyLen(text)
               /\ start' = start + (chunk_size_chars - overlap_chars)
               /\ start' > start
        /\ (ct_pc = "while" /\ ct_pc' = "return") => start >= PyLen(text)

\* C15: for every text and every size and overlap with 0 < overlap < size,
\* chunk_text returns; each iteration moves start forward by size - overlap
\* and the loop ends once start is at or past the length of the text; every
\* chunk is non-empty, trimmed and at most size characters long; an empty
\* text and a text of spaces only give no chunk.
C15_ChunkTerminates ==
    /\ []ChunksWellFormed
    /\ [][StartAdvances]_vars
    /\ (ValidChunking ~> ct_pc = "return")

\* C15 witness: a returned call, 0 < overlap < size, on a text that begins
\* and ends with spaces, after three iterations or more, with a chunk
\* shorter than its window.
C15_Witness ==
    /\ ct_pc = "return"
    /\ ValidChunking
    /\ Len(windows) >= 3
    /\ IsSpace(PyCharAt(text, 0))
    /\ IsSpace(PyCharAt(text, PyLen(text) - 1))
    /\ ct_chunks # <<>>
    /\ PyLen(ct_chunks[1]) < windows[1].hi - windows[1].lo

\* A returned call on a text of spaces only: no chunk
C15_WhitespaceOnlyReturned ==
    /\ ct_pc = "return"
    /\ ValidChunking
    /\ text # <<>>
    /\ PyStrip(text) = <<>>
    /\ Len(windows) >= 2
    /\ ct_chunks = <<>>

====
